---- MODULE Spec2Model ----
(***************************************************************************)
(* Model of student_code.py: SortableDigraph, TraversableDigraph and DAG.  *)
(* One graph object is modelled.  Its class is fixed at construction, its  *)
(* only field is the insertion-ordered dict self.adj.                      *)
(***************************************************************************)
EXTENDS Integers, Sequences, FiniteSets, TLC

\* Node identifiers put into the graph are 1..NumNodes.  None is never one of
\* them: the signatures start=None, visited=None reserve it for "omitted".
NumNodes == 4

\* Upper bound on the number of add_node / add_edge calls made on the graph.
MaxCalls == 3

\* The default argument value of start / visited (an omitted argument).
None == 0

Nodes == 1..NumNodes

\* TraversableDigraph inherits add_node, add_edge and topsort from
\* SortableDigraph unchanged: it stands for the base graph.
Classes == {"TraversableDigraph", "DAG"}

VARIABLES
    cls,     \* class of the graph object
    adj,     \* self.adj: sequence of [k |-> node, v |-> neighbor list], in key insertion order
    last,    \* the last call made on the object: [op, u, v]; u is the node of add_node, the start of dfs / bfs
    raised,  \* whether the last call raised ValueError
    out,     \* what the last call returned (topsort) or yielded until exhaustion (dfs, bfs)
    calls    \* number of add_node / add_edge calls made so far

vars == <<cls, adj, last, raised, out, calls>>

-----------------------------------------------------------------------------
\* The dict self.adj

\* list(self.adj.keys())
Keys(a) == [i \in DOMAIN a |-> a[i].k]

KeySet(a) == {a[i].k : i \in DOMAIN a}

\* node in self.adj
Has(a, n) == n \in KeySet(a)

\* self.adj.get(node, [])
Get(a, n) == IF Has(a, n) THEN a[CHOOSE i \in DOMAIN a : a[i].k = n].v ELSE <<>>

Range(s) == {s[i] : i \in DOMAIN s}

Reverse(s) == [i \in DOMAIN s |-> s[Len(s) + 1 - i]]

RECURSIVE SumLens(_)
SumLens(a) == IF a = <<>> THEN 0 ELSE Len(Head(a).v) + SumLens(Tail(a))

\* number of edges stored (parallel edges counted)
NumEdges(a) == SumLens(a)

-----------------------------------------------------------------------------
\* SortableDigraph

add_node(a, node) ==
    IF ~Has(a, node) THEN Append(a, [k |-> node, v |-> <<>>]) ELSE a

\* add_edge that forgets self.add_node(v)
add_edge_no_target(a, u, v) ==
    LET a1 == add_node(a, u)
    IN  [i \in DOMAIN a1 |->
            IF a1[i].k = u THEN [k |-> u, v |-> Append(a1[i].v, v)] ELSE a1[i]]

add_edge(a, u, v) ==
    LET a1 == add_node(a, u)
        a2 == add_node(a1, v)
    IN  [i \in DOMAIN a2 |->
            IF a2[i].k = u THEN [k |-> u, v |-> Append(a2[i].v, v)] ELSE a2[i]]

RECURSIVE visit(_, _, _)
RECURSIVE visit_each(_, _, _)

\* the nested function visit(node); st is [visited, result], shared by all calls
visit(a, node, st) ==
    IF node \in st.visited THEN st
    ELSE LET s1 == [st EXCEPT !.visited = @ \cup {node}]
             s2 == visit_each(a, Get(a, node), s1)
         IN  [s2 EXCEPT !.result = Append(@, node)]

\* the for loops that call visit on each element of a list
visit_each(a, nodes, st) ==
    IF nodes = <<>> THEN st
    ELSE visit_each(a, Tail(nodes), visit(a, Head(nodes), st))

\* topsort that returns result instead of result[::-1]
topsort_not_reversed(a) ==
    visit_each(a, Keys(a), [visited |-> {}, result |-> <<>>]).result

\* topsort that visits from the first key only instead of from every key
topsort_first_root(a) ==
    Reverse(visit_each(a, IF a = <<>> THEN <<>> ELSE <<Keys(a)[1]>>,
                       [visited |-> {}, result |-> <<>>]).result)

topsort(a) ==
    Reverse(visit_each(a, Keys(a), [visited |-> {}, result |-> <<>>]).result)

-----------------------------------------------------------------------------
\* TraversableDigraph

\* next(iter(self.adj.keys()))
FirstKey(a) == a[1].k

\* value of the argument visited of a top-level call: visited is None
NoVisited == [given |-> FALSE, visited |-> {}]

RECURSIVE dfs(_, _, _)
RECURSIVE dfs_each(_, _, _)

\* the generator dfs(start, visited) run to exhaustion.  st is
\* [given, visited, out]: given is "visited is not None", visited is the set
\* object shared with the recursive calls, out is what has been yielded so far.
dfs(a, start, st) ==
    LET s0 == IF start = None
              THEN (IF a # <<>> THEN FirstKey(a) ELSE None)
              ELSE start
        st1 == IF ~st.given THEN [st EXCEPT !.given = TRUE, !.visited = {}] ELSE st
    IN  IF s0 = None THEN st
        ELSE IF s0 \in st1.visited THEN st1
        ELSE dfs_each(a, Get(a, s0),
                      [st1 EXCEPT !.visited = @ \cup {s0}, !.out = Append(@, s0)])

\* the for loop of dfs handing each recursive call its own copy of visited
dfs_each_copied_visited(a, nbrs, st) ==
    IF nbrs = <<>> THEN st
    ELSE LET r == IF Head(nbrs) \notin st.visited THEN dfs(a, Head(nbrs), st) ELSE st
         IN  dfs_each(a, Tail(nbrs), [r EXCEPT !.visited = st.visited])

\* for neighbor in self.adj.get(start, []): if neighbor not in visited: yield from ...
dfs_each(a, nbrs, st) ==
    IF nbrs = <<>> THEN st
    ELSE dfs_each(a, Tail(nbrs),
                  IF Head(nbrs) \notin st.visited THEN dfs(a, Head(nbrs), st) ELSE st)

\* list(g.dfs(start))
dfs_list(a, start) ==
    dfs(a, start, [given |-> NoVisited.given, visited |-> NoVisited.visited, out |-> <<>>]).out

RECURSIVE bfs_for(_, _)
RECURSIVE bfs_while(_, _, _)

\* the inner for loop of bfs; st is [visited, queue]
bfs_for(nbrs, st) ==
    IF nbrs = <<>> THEN st
    ELSE bfs_for(Tail(nbrs),
                 IF Head(nbrs) \notin st.visited
                 THEN [visited |-> st.visited \cup {Head(nbrs)},
                       queue |-> Append(st.queue, Head(nbrs))]
                 ELSE st)

\* the while loop of bfs with queue.pop() instead of queue.popleft()
bfs_while_pop_right(a, st, yielded) ==
    IF st.queue = <<>> THEN yielded
    ELSE LET node == st.queue[Len(st.queue)]
         IN  bfs_while(a,
                       bfs_for(Get(a, node),
                               [st EXCEPT !.queue = SubSeq(@, 1, Len(@) - 1)]),
                       Append(yielded, node))

\* the while loop of bfs; st is [visited, queue], yielded is the output so far
bfs_while(a, st, yielded) ==
    IF st.queue = <<>> THEN yielded
    ELSE LET node == Head(st.queue)
         IN  bfs_while(a,
                       bfs_for(Get(a, node), [st EXCEPT !.queue = Tail(@)]),
                       Append(yielded, node))

\* bfs that returns at once when start is not a key of self.adj
bfs_absent_start_empty(a, start) ==
    IF a = <<>> THEN <<>>
    ELSE LET s0 == IF start = None THEN FirstKey(a) ELSE start
         IN  IF ~Has(a, s0) THEN <<>>
             ELSE bfs_while(a, [visited |-> {s0}, queue |-> <<s0>>], <<>>)

\* list(g.bfs(start))
bfs(a, start) ==
    IF a = <<>> THEN <<>>
    ELSE LET s0 == IF start = None THEN FirstKey(a) ELSE start
         IN  bfs_while(a, [visited |-> {s0}, queue |-> <<s0>>], <<>>)

-----------------------------------------------------------------------------
\* DAG

RECURSIVE has_path(_, _, _, _)
RECURSIVE has_path_each(_, _, _, _)

\* _has_path whose base case start == end needs start to be a key of self.adj
has_path_known_start(a, start, end, st) ==
    LET vis == IF ~st.given THEN {} ELSE st.visited
    IN  IF start = end /\ Has(a, start) THEN [found |-> TRUE, visited |-> vis]
        ELSE has_path_each(a, Get(a, start), end, vis \cup {start})

\* _has_path(start, end, visited); st is [given, visited]; the result is
\* [found, visited], visited being the shared set after the call
has_path(a, start, end, st) ==
    LET vis == IF ~st.given THEN {} ELSE st.visited
    IN  IF start = end THEN [found |-> TRUE, visited |-> vis]
        ELSE has_path_each(a, Get(a, start), end, vis \cup {start})

\* the for loop of _has_path returning the answer of the first neighbor explored
has_path_each_first_only(a, nbrs, end, vis) ==
    IF nbrs = <<>> THEN [found |-> FALSE, visited |-> vis]
    ELSE IF Head(nbrs) \notin vis
         THEN has_path(a, Head(nbrs), end, [given |-> TRUE, visited |-> vis])
         ELSE has_path_each(a, Tail(nbrs), end, vis)

\* the for loop of _has_path
has_path_each(a, nbrs, end, vis) ==
    IF nbrs = <<>> THEN [found |-> FALSE, visited |-> vis]
    ELSE IF Head(nbrs) \notin vis
         THEN LET r == has_path(a, Head(nbrs), end, [given |-> TRUE, visited |-> vis])
              IN  IF r.found THEN r
                  ELSE has_path_each(a, Tail(nbrs), end, r.visited)
         ELSE has_path_each(a, Tail(nbrs), end, vis)

\* DAG.add_edge asking for a path from u to v instead of from v to u
DAG_add_edge_swapped(a, u, v) ==
    IF has_path(a, u, v, NoVisited).found
    THEN [raised |-> TRUE, adj |-> a]
    ELSE [raised |-> FALSE, adj |-> add_edge(a, u, v)]

\* DAG.add_edge inserting both nodes before the check
DAG_add_edge_nodes_first(a, u, v) ==
    LET a2 == add_node(add_node(a, u), v)
    IN  IF has_path(a2, v, u, NoVisited).found
        THEN [raised |-> TRUE, adj |-> a2]
        ELSE [raised |-> FALSE, adj |-> add_edge(a2, u, v)]

\* DAG.add_edge: [raised, adj]
DAG_add_edge(a, u, v) ==
    IF has_path(a, v, u, NoVisited).found
    THEN [raised |-> TRUE, adj |-> a]
    ELSE [raised |-> FALSE, adj |-> add_edge(a, u, v)]

\* method resolution of g.add_edge(u, v) for an object of class c
call_add_edge(c, a, u, v) ==
    IF c = "DAG" THEN DAG_add_edge(a, u, v)
    ELSE [raised |-> FALSE, adj |-> add_edge(a, u, v)]

-----------------------------------------------------------------------------

\* The code uses node identifiers only through == and hash (dict keys, set
\* membership), so it behaves alike under any renaming of them.  Calls are
\* enumerated up to renaming: an identifier not yet in the graph is the next
\* unused number.
NextId(a) == Len(a) + 1

\* the state after g = c()
Constructed(c) ==
    /\ cls = c
    /\ adj = <<>>
    /\ last = [op |-> "init", u |-> None, v |-> None]
    /\ raised = FALSE
    /\ out = <<>>
    /\ calls = 0

AddNode(n) ==
    /\ calls < MaxCalls
    /\ calls' = calls + 1
    /\ Has(adj, n) \/ n = NextId(adj)
    /\ adj' = add_node(adj, n)
    /\ last' = [op |-> "add_node", u |-> n, v |-> None]
    /\ raised' = FALSE
    /\ out' = <<>>
    /\ UNCHANGED cls

Topsort ==
    /\ out' = topsort(adj)
    /\ last' = [op |-> "topsort", u |-> None, v |-> None]
    /\ raised' = FALSE
    /\ UNCHANGED <<cls, adj, calls>>

AddEdge(u, v) ==
    /\ calls < MaxCalls
    /\ calls' = calls + 1
    /\ Has(adj, u) \/ u = NextId(adj)
    /\ Has(adj, v) \/ v = u \/ v = NextId(add_node(adj, u))
    /\ LET r == call_add_edge(cls, adj, u, v)
       IN  /\ adj' = r.adj
           /\ raised' = r.raised
    /\ last' = [op |-> "add_edge", u |-> u, v |-> v]
    /\ out' = <<>>
    /\ UNCHANGED cls

Dfs(start) ==
    /\ start = None \/ Has(adj, start) \/ start = NextId(adj)
    /\ out' = dfs_list(adj, start)
    /\ last' = [op |-> "dfs", u |-> start, v |-> None]
    /\ raised' = FALSE
    /\ UNCHANGED <<cls, adj, calls>>

Bfs(start) ==
    /\ start = None \/ Has(adj, start) \/ start = NextId(adj)
    /\ out' = bfs(adj, start)
    /\ last' = [op |-> "bfs", u |-> start, v |-> None]
    /\ raised' = FALSE
    /\ UNCHANGED <<cls, adj, calls>>

Next ==
    \/ \E n \in Nodes : AddNode(n)
    \/ \E u, v \in Nodes : AddEdge(u, v)
    \/ Topsort
    \/ \E start \in Nodes \cup {None} : Dfs(start)
    \/ \E start \in Nodes \cup {None} : Bfs(start)

Init == \E c \in Classes : Constructed(c)

Spec == Init /\ [][Next]_vars

\* A DAG object and its mutators.
NextDag ==
    \/ \E n \in Nodes : AddNode(n)
    \/ \E u, v \in Nodes : AddEdge(u, v)

SpecDag == Constructed("DAG") /\ [][NextDag]_vars

\* A TraversableDigraph object, its mutators and the two traversals.
NextTraverse ==
    \/ \E n \in Nodes : AddNode(n)
    \/ \E u, v \in Nodes : AddEdge(u, v)
    \/ \E start \in Nodes \cup {None} : Dfs(start)
    \/ \E start \in Nodes \cup {None} : Bfs(start)

SpecTraverse == Constructed("TraversableDigraph") /\ [][NextTraverse]_vars

-----------------------------------------------------------------------------
\* Graph notions the properties are stated in, defined on the adjacency
\* relation alone.

\* out-neighbors of n as a set
Succ(a, n) == Range(Get(a, n))

RECURSIVE Closure(_, _)
\* least set containing S and closed under Succ
Closure(a, S) ==
    LET T == S \cup UNION {Succ(a, n) : n \in S}
    IN  IF T = S THEN S ELSE Closure(a, T)

\* nodes reachable from s by a directed path of zero or more edges
Reachable(a, s) == Closure(a, {s})

\* some node reaches itself by a path of one or more edges
HasCycle(a) == \E n \in KeySet(a) : n \in Closure(a, Succ(a, n))

RECURSIVE DistFrom(_, _, _, _, _)
\* length of the shortest path to n from the layer S at depth d; -1 if none
DistFrom(a, S, seen, n, d) ==
    IF n \in S THEN d
    ELSE LET T == UNION {Succ(a, m) : m \in S} \ (seen \cup S)
         IN  IF T = {} THEN -1 ELSE DistFrom(a, T, seen \cup S, n, d + 1)

Dist(a, s, n) == DistFrom(a, {s}, {}, n, 0)

\* seq lists every element of S exactly once
IsPermOf(seq, S) == Len(seq) = Cardinality(S) /\ Range(seq) = S

Index(seq, x) == CHOOSE i \in DOMAIN seq : seq[i] = x

\* seq is a prefix of t
IsPrefix(seq, t) == Len(seq) <= Len(t) /\ SubSeq(t, 1, Len(seq)) = seq

\* b is a with the edge u -> v committed: u, v inserted if absent (u first),
\* v appended to u's neighbors, nothing else changed
Committed(a, b, u, v) ==
    /\ IsPrefix(Keys(a), Keys(b))
    /\ KeySet(b) = KeySet(a) \cup {u, v}
    /\ Len(b) = Cardinality(KeySet(b))
    /\ ~Has(a, u) /\ ~Has(a, v) /\ u # v => Index(Keys(b), u) < Index(Keys(b), v)
    /\ Get(b, u) = Append(Get(a, u), v)
    /\ \A n \in KeySet(b) \ {u} : Get(b, n) = Get(a, n)

TraversalOps == {"dfs", "bfs"}

-----------------------------------------------------------------------------
\* C1: after any sequence of add_node / add_edge calls on a DAG that starts
\* empty, accepted or rejected, the adjacency relation has no directed cycle
\* of one or more edges.
C1_DagAcyclic == cls = "DAG" => ~HasCycle(adj)

\* a DAG holding two edges on which the last add_edge was rejected
C1_Witness ==
    /\ cls = "DAG" /\ last.op = "add_edge" /\ raised
    /\ NumEdges(adj) = 2 /\ last.u # last.v

\* C2: when DAG.add_edge(u, v) raises, the adjacency relation after the call
\* is the one before the call: same keys in the same order, same neighbor
\* sequences, neither u nor v inserted.
C2_RejectLeavesAdj ==
    [][(cls = "DAG" /\ last'.op = "add_edge" /\ raised') => adj' = adj]_vars

\* a rejected add_edge(x, x) whose x is not a node of the graph
C2_Witness ==
    /\ cls = "DAG" /\ last.op = "add_edge" /\ raised
    /\ ~Has(adj, last.u) /\ adj # <<>>

\* C3: on an acyclic graph of either class topsort() returns a permutation
\* of the node set in which u comes before v for every edge u -> v.
C3_TopsortValid ==
    (last.op = "topsort" /\ ~HasCycle(adj)) =>
        /\ IsPermOf(out, KeySet(adj))
        /\ \A u \in KeySet(adj) : \A v \in Succ(adj, u) :
               Index(out, u) < Index(out, v)

\* topsort of an acyclic graph with an edge against the key order
C3_Witness ==
    /\ last.op = "topsort" /\ ~HasCycle(adj) /\ NumEdges(adj) >= 2
    /\ \E u \in KeySet(adj) : \E v \in Succ(adj, u) :
           Index(Keys(adj), v) < Index(Keys(adj), u)

\* C4: for every graph, cyclic or not, and every node start of it, dfs(start)
\* and bfs(start) run to exhaustion yield each node reachable from start
\* exactly once and no other node.
C4_TraversalExact ==
    (last.op \in TraversalOps /\ Has(adj, last.u)) =>
        IsPermOf(out, Reachable(adj, last.u))

\* a traversal of a cyclic graph that leaves out a node unreachable from start
C4_Witness ==
    /\ last.op \in TraversalOps /\ Has(adj, last.u)
    /\ HasCycle(adj) /\ Len(out) >= 2 /\ Len(out) < Len(adj)

\* C5: bfs(start) from a node of the graph yields nodes in non-decreasing
\* order of their shortest-path distance from start.
C5_BfsLayered ==
    (last.op = "bfs" /\ Has(adj, last.u)) =>
        \A i, j \in DOMAIN out :
            i < j => Dist(adj, last.u, out[i]) <= Dist(adj, last.u, out[j])

\* a bfs reaching distance 2 whose order differs from the depth-first order
C5_Witness ==
    /\ last.op = "bfs" /\ Has(adj, last.u)
    /\ \E n \in Range(out) : Dist(adj, last.u, n) = 2
    /\ out # dfs_list(adj, last.u)

\* C6: DAG.add_edge(u, v) raises exactly when v reaches u by a path of zero
\* or more edges in the adjacency relation as it is at the call; otherwise
\* the edge is committed as by the base add_edge: u and v inserted if absent,
\* v appended to the end of u's neighbors, every other sequence unchanged,
\* also when u -> v is already an edge.
C6_RejectIffPath ==
    [][(cls = "DAG" /\ last'.op = "add_edge") =>
          /\ raised' <=> last'.u \in Reachable(adj, last'.v)
          /\ ~raised' => Committed(adj, adj', last'.u, last'.v)]_vars

\* an accepted add_edge(u, v) of an edge u -> v that was already there
C6_Witness ==
    /\ cls = "DAG" /\ last.op = "add_edge" /\ ~raised
    /\ Len(Get(adj, last.u)) = 2
    /\ Get(adj, last.u)[1] = last.v /\ Get(adj, last.u)[2] = last.v

\* C7: on a DAG in any reachable state, the empty one included,
\* add_edge(x, x) raises for every x, node of the graph or not.
C7_SelfLoopRejected ==
    cls = "DAG" => \A x \in Nodes : call_add_edge(cls, adj, x, x).raised

\* add_edge(x, x) rejected on the freshly created DAG
C7_Witness ==
    /\ cls = "DAG" /\ last.op = "add_edge" /\ last.u = last.v /\ raised
    /\ adj = <<>>

\* C8: after any sequence of add_node / add_edge calls on a graph of either
\* class, every node in a neighbor sequence is a key of the adjacency mapping.
C8_NoDangling ==
    \A i \in DOMAIN adj : Range(adj[i].v) \subseteq KeySet(adj)

\* an add_edge that inserted both of its endpoints
C8_Witness ==
    /\ last.op = "add_edge" /\ ~raised /\ Len(adj) = 4
    /\ Keys(adj)[3] = last.u /\ Keys(adj)[4] = last.v

\* C9 as stated: dfs(start) / bfs(start) on a non-empty graph with a start
\* that is not a node of the graph yields the empty sequence.
C9_AbsentStartEmpty ==
    (/\ last.op \in TraversalOps /\ adj # <<>>
     /\ last.u # None /\ ~Has(adj, last.u)) => out = <<>>

\* C9 amended: dfs(start) / bfs(start) on a non-empty graph with a given start
\* that is not a node of the graph raises no error and yields exactly one
\* element, start itself.
C9_AbsentStartYieldsStart ==
    (/\ last.op \in TraversalOps /\ adj # <<>>
     /\ last.u # None /\ ~Has(adj, last.u)) => (out = <<last.u>> /\ ~raised)

\* a bfs of a graph with edges from a start that is not one of its nodes
C9_Witness ==
    /\ last.op = "bfs" /\ NumEdges(adj) >= 1
    /\ last.u # None /\ ~Has(adj, last.u)

\* C10: on a base graph, with directed cycles or self-loops or without,
\* topsort() returns (so it terminates, without error) every node exactly
\* once and leaves the adjacency relation unchanged.
C10_TopsortTotal ==
    [][(cls = "TraversableDigraph" /\ last'.op = "topsort") =>
          /\ adj' = adj
          /\ ~raised'
          /\ IsPermOf(out', KeySet(adj))]_vars

\* topsort of a base graph that has a self-loop and a longer cycle
C10_Witness ==
    /\ cls = "TraversableDigraph" /\ last.op = "topsort"
    /\ \E n \in KeySet(adj) : n \in Succ(adj, n)
    /\ \E n \in KeySet(adj) : \E m \in Succ(adj, n) \ {n} : n \in Reachable(adj, m)

====
